---- MODULE Spec2Model ----
(***************************************************************************)
(* Model of py_eddy_tracker.grid.PyEddyTracker: the index windows of a     *)
(* domain (core, padded, unpad), the staggered-grid conversions and the    *)
(* geostrophic velocity solve.                                             *)
(*                                                                         *)
(* Coordinates are integers counting quarter degrees: 0.5 degree is 2 and  *)
(* 360 degrees is 1440.  Array indices are the 0-based indices of Python;  *)
(* sequences holding them are 1-based as TLA+ sequences are.               *)
(***************************************************************************)
EXTENDS Integers, Sequences, FiniteSets, TLC

VARIABLES
    wpc,            \* position in the window life cycle: new, indexed, padded, alloc, error
    werr,           \* the exception that ended the life cycle ("" when none)
    grid,           \* the loaded grid: shape and coordinate axes (self._lon, self._lat)
    className,      \* self.__class__.__name__
    box,            \* self.lonmin, self.lonmax, self.latmin, self.latmax
    zero_crossing,  \* self.zero_crossing
    slice_i, slice_j,
    slice_i_pad, slice_j_pad,
    slice_i_unpad, slice_j_unpad,
    pad,            \* self.pad (None until set_index_padding sets it)
    upad, vpad,     \* self.upad, self.vpad: the padded velocity buffers
    p_m, p_n, gof,  \* the cached metrics (self._pm, self._pn, self._gof)
    mask,           \* the land/ocean mask on the padded window
    umask, vmask,   \* self._umask, self._vmask
    zeta,           \* the argument of the last set_geostrophic_velocity
    u_val, v_val,   \* self.u_val, self.v_val: views of upad, vpad
    eke,            \* self.eke: the address of the current eke array
    heap,           \* the eke arrays allocated so far, by address
    kept,           \* what a caller took from an earlier solve
    spc,            \* position in the solve life cycle
    serr,           \* the exception a solve raised ("" when none)
    fn, arg, ret,   \* a staggering call: function, argument, result
    chain,          \* the argument of the call whose result arg is
    tpc, tzeta, tres, tclean  \* two concurrent solver invocations

winvars == <<wpc, werr, grid, className, box, zero_crossing, slice_i, slice_j,
             slice_i_pad, slice_j_pad, slice_i_unpad, slice_j_unpad, pad>>
bufvars == <<upad, vpad>>
metvars == <<p_m, p_n, gof, mask, umask, vmask>>
solvars == <<zeta, u_val, v_val, eke, heap, kept, spc, serr>>
stagvars == <<fn, arg, ret, chain>>
concvars == <<tpc, tzeta, tres, tclean>>
vars == <<winvars, bufvars, metvars, solvars, stagvars, concvars>>

(***************************************************************************)
(* Bounds of the model.                                                    *)
(***************************************************************************)
MaxPad == 5

Max(a, b) == IF a >= b THEN a ELSE b
Min(a, b) == IF a <= b THEN a ELSE b
Abs(a) == IF a < 0 THEN -a ELSE a

(***************************************************************************)
(* Python's None and slice objects.  An optional integer is <<>> (None)    *)
(* or <<n>>.                                                               *)
(***************************************************************************)
None == <<>>
Some(n) == <<n>>
pyslice(a, b) == [start |-> a, stop |-> b]
slice_None == pyslice(None, None)

\* An index of a slice resolved against an axis of length n, as Python does
\* for a step of 1: None is the default, a negative index counts from the end,
\* and the result is clamped to 0..n.
PyIdx(x, n, dflt) ==
    IF x = None THEN dflt
    ELSE IF x[1] < 0 THEN Max(0, n + x[1]) ELSE Min(x[1], n)

\* np.arange(a, b): a, a+1, ..., b-1 (empty when b <= a).
arange(a, b) == [k \in 1..Max(0, b - a) |-> a + k - 1]

\* The indices an axis of length n yields under basic slicing with s.
SliceIndices(s, n) == arange(PyIdx(s.start, n, 0), PyIdx(s.stop, n, n))

\* seq[s] for a Python sequence or index array seq.
SliceSeq(seq, s) ==
    LET idx == SliceIndices(s, Len(seq))
    IN  [k \in 1..Len(idx) |-> seq[idx[k] + 1]]

\* create_index_inverse: the columns from stop to the grid width, then from 0
\* to start.  Both ends are integers here: None raises TypeError in np.arange.
create_index_inverse(slice_to_inverse, size) ==
    arange(slice_to_inverse.stop[1], size) \o arange(0, slice_to_inverse.start[1])

\* Whether create_index_inverse can run on s.
InverseDefined(s) == s.start # None /\ s.stop # None

\* The column part of view / view_pad, materialized as the column indices it
\* selects on a grid nx columns wide.
ViewCols(s, zc, nx) ==
    IF zc THEN create_index_inverse(s, nx) ELSE SliceIndices(s, nx)

\* Whether the column part of view / view_pad can be built.
ViewDefined(s, zc) == (~zc) \/ InverseDefined(s)

\* The shape of a grid array indexed by (rows slice sj, columns of si).
ViewShape(sj, si, zc, ny, nx) ==
    <<Len(SliceIndices(sj, ny)), Len(ViewCols(si, zc, nx))>>

\* The shape of an array of shape shp indexed by view_unpad = (uj, ui).
UnpadShape(shp, uj, ui) ==
    <<Len(SliceIndices(uj, shp[1])), Len(SliceIndices(ui, shp[2]))>>

(***************************************************************************)
(* The grid: regular, separable axes.  lon[k] = lon0 + step*k.             *)
(***************************************************************************)
MkGrid(ny, nx, lon0, lat0, step) ==
    [ny |-> ny, nx |-> nx,
     lon |-> [k \in 1..nx |-> lon0 + step * (k - 1)],
     lat |-> [k \in 1..ny |-> lat0 + step * (k - 1)]]

\* is_regular: one step along each axis, different from zero.
is_regular(g) ==
    LET steps_lon == {g.lon[k + 1] - g.lon[k] : k \in 1..(g.nx - 1)}
        steps_lat == {g.lat[k + 1] - g.lat[k] : k \in 1..(g.ny - 1)}
    IN  /\ Cardinality(steps_lon) = 1
        /\ Cardinality(steps_lat) = 1
        /\ 0 \notin steps_lon
        /\ 0 \notin steps_lat

\* floor(np.interp(x, xp, arange(len(xp)))) for an increasing axis xp: the
\* 0-based index of the last axis point at or below x, clamped to the axis.
FloorInterp(x, xp) ==
    IF x < xp[1] THEN 0
    ELSE LET below == {k \in 1..Len(xp) : xp[k] <= x}
         IN  (CHOOSE k \in below : \A k2 \in below : k2 <= k) - 1

\* nearest() along one axis (tracking_objects.nearest): the index of the
\* closest axis point, the lower one on a tie, clamped to the axis.
Nearest1(x, xp) ==
    LET f == FloorInterp(x, xp)
    IN  IF f + 1 >= Len(xp) \/ x < xp[1] THEN f
        ELSE IF xp[f + 2] - x < x - xp[f + 1] THEN f + 1 ELSE f

\* nearest_point(lon, lat) -> (i, j)
nearest_point(g, lon, lat) == <<Nearest1(lon, g.lon), Nearest1(lat, g.lat)>>

\* Python's x // 2 on an integer (floor).
FloorHalf(x) == IF x >= 0 THEN x \div 2 ELSE -((1 - x) \div 2)

(***************************************************************************)
(* Floating point values.  The values the model computes with are dyadic   *)
(* rationals n / 2^e of small size, which binary floating point holds      *)
(* exactly, together with the infinities and NaN of IEEE 754.  A finite    *)
(* value is kept normalized (n odd or e = 0), so that equal values are     *)
(* equal records; -0.0 == 0.0 as in numpy's comparison.                    *)
(***************************************************************************)
RECURSIVE Norm(_, _)
Norm(n, e) ==
    IF e > 0 /\ n % 2 = 0 THEN Norm(n \div 2, e - 1)
    ELSE [k |-> "fin", n |-> n, e |-> e]

RECURSIVE Pow2(_)
Pow2(e) == IF e = 0 THEN 1 ELSE 2 * Pow2(e - 1)

F(n) == [k |-> "fin", n |-> n, e |-> 0]
Inf(sgn) == [k |-> "inf", n |-> sgn, e |-> 0]
NaN == [k |-> "nan", n |-> 0, e |-> 0]
Sign(n) == IF n > 0 THEN 1 ELSE IF n < 0 THEN -1 ELSE 0

FNeg(a) == IF a.k = "nan" THEN NaN ELSE [a EXCEPT !.n = -a.n]

FAdd(a, b) ==
    IF a.k = "nan" \/ b.k = "nan" THEN NaN
    ELSE IF a.k = "inf" /\ b.k = "inf" THEN (IF a.n = b.n THEN a ELSE NaN)
    ELSE IF a.k = "inf" THEN a
    ELSE IF b.k = "inf" THEN b
    ELSE LET e == Max(a.e, b.e)
         IN  Norm(a.n * Pow2(e - a.e) + b.n * Pow2(e - b.e), e)

FSub(a, b) == FAdd(a, FNeg(b))

FMul(a, b) ==
    IF a.k = "nan" \/ b.k = "nan" THEN NaN
    ELSE IF a.k = "inf" \/ b.k = "inf"
         THEN (IF a.n = 0 \/ b.n = 0 THEN NaN ELSE Inf(Sign(a.n) * Sign(b.n)))
    ELSE Norm(a.n * b.n, a.e + b.e)

\* x * 0.5 and x / 2
FHalf(a) == FMul(a, [k |-> "fin", n |-> 1, e |-> 1])

IsZero(a) == a.k = "fin" /\ a.n = 0
IsFinite(a) == a.k = "fin"

(***************************************************************************)
(* numpy arrays: a shape (a sequence of axis lengths) and the data in row  *)
(* major order.  mask is <<>> for a plain ndarray (or numpy.ma.nomask),    *)
(* else one boolean per datum.                                             *)
(***************************************************************************)
RECURSIVE Prod(_)
Prod(shape) == IF shape = <<>> THEN 1 ELSE Head(shape) * Prod(Tail(shape))

ndarray(shape, data) == [shape |-> shape, data |-> data, mask |-> <<>>]
ndim(a) == Len(a.shape)
size(a) == Prod(a.shape)

\* Stride of axis d (in elements) of a row-major array of this shape.
Stride(shape, d) == Prod(SubSeq(shape, d + 1, Len(shape)))

\* The 0-based multi-index of the 0-based flat index k0.
Unravel(k0, shape) ==
    [d \in 1..Len(shape) |-> (k0 \div Stride(shape, d)) % shape[d]]

RECURSIVE RavelFrom(_, _, _)
RavelFrom(idx, shape, d) ==
    IF d > Len(shape) THEN 0
    ELSE idx[d] * Stride(shape, d) + RavelFrom(idx, shape, d + 1)

\* The 0-based flat index of the 0-based multi-index idx.
Ravel(idx, shape) == RavelFrom(idx, shape, 1)

\* Op applied to the value of x, and a sequence given as a function written
\* out as a tuple: the operations on arrays below take their operands by
\* value and return their result in full.
Strict(x, Op(_)) == CHOOSE r \in {Op(v) : v \in {x}} : TRUE
Tuple(s) == s \o <<>>

\* An array of this shape whose element at multi-index idx is f(idx).
MkArray(shape, f(_)) ==
    Strict(shape, LAMBDA shp :
        ndarray(shp, Tuple([k \in 1..Prod(shp) |-> f(Unravel(k - 1, shp))])))

\* The element of a at 0-based multi-index idx.
At(a, idx) == a.data[Ravel(idx, a.shape) + 1]
MaskAt(a, idx) == IF a.mask = <<>> THEN FALSE ELSE a.mask[Ravel(idx, a.shape) + 1]

\* np.zeros(shape), and an array holding c everywhere.
full(shape, c) == MkArray(shape, LAMBDA mi : c)
zeros(shape) == full(shape, F(0))

\* a.squeeze(): the axes of length 1 are dropped, the data stay.
squeeze(a) == [a EXCEPT !.shape = SelectSeq(a.shape, LAMBDA d : d # 1)]

\* Basic slicing along one axis (1-based axis number) with the slice s; the
\* array has at least that many axes.
TakeSlice(arr, axis, s) ==
    Strict(arr, LAMBDA a :
    Strict(SliceIndices(s, a.shape[axis]), LAMBDA idxs :
    Strict([a.shape EXCEPT ![axis] = Len(idxs)], LAMBDA shp :
        LET src(k) == LET mi == Unravel(k - 1, shp)
                      IN  Ravel([mi EXCEPT ![axis] = idxs[mi[axis] + 1]], a.shape) + 1
        IN  [shape |-> shp,
             data  |-> Tuple([k \in 1..Prod(shp) |-> a.data[src(k)]]),
             mask  |-> IF a.mask = <<>> THEN <<>>
                       ELSE Tuple([k \in 1..Prod(shp) |-> a.mask[src(k)]])])))

\* The slices [1:] and [:-1]
From1 == pyslice(Some(1), None)
ToLast == pyslice(None, Some(-1))
Inner == pyslice(Some(1), Some(-1))

(***************************************************************************)
(* Broadcasting of two shapes, aligned at their last axes: <<>> wrapped in *)
(* a sequence when the shapes are compatible, else None.                   *)
(***************************************************************************)
PadShape(shape, r) == [d \in 1..r |-> IF d <= r - Len(shape) THEN 1
                                      ELSE shape[d - (r - Len(shape))]]

Broadcastable(s1, s2) ==
    LET r == Max(Len(s1), Len(s2))
        p1 == PadShape(s1, r)
        p2 == PadShape(s2, r)
    IN  \A d \in 1..r : p1[d] = p2[d] \/ p1[d] = 1 \/ p2[d] = 1

BroadcastShape(s1, s2) ==
    LET r == Max(Len(s1), Len(s2))
        p1 == PadShape(s1, r)
        p2 == PadShape(s2, r)
    IN  [d \in 1..r |-> IF p1[d] = 1 THEN p2[d] ELSE p1[d]]

\* The multi-index into an operand of shape s that the result's multi-index
\* mi reads under broadcasting.
BIndex(mi, s) ==
    LET off == Len(mi) - Len(s)
    IN  [d \in 1..Len(s) |-> IF s[d] = 1 THEN 0 ELSE mi[d + off]]

\* Elementwise f over two plain arrays of broadcastable shapes.
BinOp(x, y, f(_, _)) ==
    Strict(x, LAMBDA a :
    Strict(y, LAMBDA b :
        MkArray(BroadcastShape(a.shape, b.shape),
                LAMBDA mi : f(At(a, BIndex(mi, a.shape)), At(b, BIndex(mi, b.shape))))))

\* Elementwise f over one array.
MapArray(x, f(_)) ==
    Strict(x, LAMBDA a : [a EXCEPT !.data = Tuple([k \in 1..Len(a.data) |-> f(a.data[k])])])

\* Whether a value of shape vs can be assigned to a target of shape ts
\* (target[:] = value): the value broadcasts to the target's shape.
Assignable(vs, ts) ==
    /\ Len(vs) <= Len(ts)
    /\ Broadcastable(vs, ts)
    /\ BroadcastShape(vs, ts) = ts

\* target[:] = value, for an assignable value: the target keeps its shape
\* and mask, the data are the value's, broadcast.
AssignAll(target, value) ==
    Strict(target, LAMBDA t :
    Strict(value, LAMBDA v :
        [t EXCEPT !.data =
            Tuple([k \in 1..Prod(t.shape) |->
                     At(v, BIndex(Unravel(k - 1, t.shape), v.shape))])]))

(***************************************************************************)
(* The result of a call: a returned value, or the exception raised.        *)
(***************************************************************************)
NoArray == [shape |-> <<>>, data |-> <<>>, mask |-> <<>>]
Ok(v) == [ok |-> TRUE, val |-> v, err |-> ""]
Raise(e) == [ok |-> FALSE, val |-> NoArray, err |-> e]

(***************************************************************************)
(* half_interp: (h_one + h_two) * 0.5 on two arrays of one shape.  On      *)
(* masked arrays numpy.ma leaves, in a cell either operand masks, the data *)
(* of the first operand, and masks the cell.                               *)
(***************************************************************************)
half_interp(x, y) ==
    Strict(x, LAMBDA h_one :
    Strict(y, LAMBDA h_two :
        LET n == Len(h_one.data)
            m(k) == (h_one.mask # <<>> /\ h_one.mask[k]) \/ (h_two.mask # <<>> /\ h_two.mask[k])
        IN  [shape |-> h_one.shape,
             data  |-> Tuple([k \in 1..n |-> IF m(k) THEN h_one.data[k]
                                             ELSE FHalf(FAdd(h_one.data[k], h_two.data[k]))]),
             mask  |-> IF h_one.mask = <<>> /\ h_two.mask = <<>> THEN <<>>
                       ELSE Tuple([k \in 1..n |-> m(k)])]))

\* uu2ur of u2rho_2d: the three assignments to u_out in their order, then squeeze.
uu2ur(uu_in, m_p, l_p) ==
    Strict(half_interp(TakeSlice(uu_in, 2, ToLast), TakeSlice(uu_in, 2, From1)), LAMBDA hi :
        LET s1(i, j) == IF 1 <= j /\ j <= l_p - 2 THEN At(hi, <<i, j - 1>>) ELSE F(0)
            s2(i, j) == IF j = 0 THEN s1(i, 1) ELSE s1(i, j)
            s3(i, j) == IF j = l_p - 1 THEN s2(i, l_p - 2) ELSE s2(i, j)
        IN  IF l_p < 2 THEN Raise("IndexError")
            ELSE Ok(squeeze(MkArray(<<m_p, l_p>>, LAMBDA mi : s3(mi[1], mi[2])))))

\* u2rho_2d: a field at u points to a field at rho points.
u2rho_2d(x) ==
    Strict(x, LAMBDA uu_in :
        IF ndim(uu_in) # 2 THEN Raise("ValueError")
        ELSE uu2ur(uu_in, uu_in.shape[1], uu_in.shape[2] + 1))

\* vv2vr of v2rho_2d
vv2vr(vv_in, m_p, l_p) ==
    Strict(half_interp(TakeSlice(vv_in, 1, ToLast), TakeSlice(vv_in, 1, From1)), LAMBDA hi :
        LET s1(i, j) == IF 1 <= i /\ i <= m_p - 2 THEN At(hi, <<i - 1, j>>) ELSE F(0)
            s2(i, j) == IF i = 0 THEN s1(1, j) ELSE s1(i, j)
            s3(i, j) == IF i = m_p - 1 THEN s2(m_p - 2, j) ELSE s2(i, j)
        IN  IF m_p < 2 THEN Raise("IndexError")
            ELSE Ok(squeeze(MkArray(<<m_p, l_p>>, LAMBDA mi : s3(mi[1], mi[2])))))

\* v2rho_2d: a field at v points to a field at rho points.
v2rho_2d(x) ==
    Strict(x, LAMBDA vv_in :
        IF ndim(vv_in) # 2 THEN Raise("ValueError")
        ELSE vv2vr(vv_in, vv_in.shape[1] + 1, vv_in.shape[2]))

\* rho2u_2d with its assert gone: the slicing fails below two axes.
rho2u_2d_noassert(rho_in) ==
    IF ndim(rho_in) < 2 THEN Raise("IndexError")
    ELSE LET a == TakeSlice(rho_in, 2, ToLast)
             b == TakeSlice(rho_in, 2, From1)
         IN  Ok(squeeze(MapArray(BinOp(a, b, FAdd), FHalf)))

\* rho2u_2d: a field at rho points to a field at u points.
rho2u_2d(rho_in) ==
    IF ndim(rho_in) # 2 THEN Raise("AssertionError")
    ELSE LET a == TakeSlice(rho_in, 2, ToLast)
             b == TakeSlice(rho_in, 2, From1)
         IN  Ok(squeeze(MapArray(BinOp(a, b, FAdd), FHalf)))

\* rho2v_2d: a field at rho points to a field at v points.
rho2v_2d(rho_in) ==
    IF ndim(rho_in) # 2 THEN Raise("AssertionError")
    ELSE LET a == TakeSlice(rho_in, 1, ToLast)
             b == TakeSlice(rho_in, 1, From1)
         IN  Ok(squeeze(MapArray(BinOp(a, b, FAdd), FHalf)))

(***************************************************************************)
(* The values the fields of the other life cycles hold while one life      *)
(* cycle runs.                                                             *)
(***************************************************************************)
NoView == [set |-> FALSE, base |-> "", rows |-> slice_None, cols |-> slice_None]
NoKept == [have |-> FALSE, u |-> NoView, v |-> NoView, eke |-> 0,
           u_seen |-> NoArray, v_seen |-> NoArray, eke_seen |-> NoArray]
NoBox == [lonmin |-> 0, lonmax |-> 0, latmin |-> 0, latmax |-> 0]

BufIdle == upad = NoArray /\ vpad = NoArray
MetIdle == /\ p_m = NoArray /\ p_n = NoArray /\ gof = NoArray
           /\ mask = NoArray /\ umask = NoArray /\ vmask = NoArray
SolIdle == /\ zeta = NoArray /\ u_val = NoView /\ v_val = NoView
           /\ eke = 0 /\ heap = <<>> /\ kept = NoKept
           /\ spc = "idle" /\ serr = ""
NoCall == [fn |-> "", arg |-> NoArray]
StagIdle == fn = "" /\ arg = NoArray /\ ret = Raise("") /\ chain = NoCall
WinIdle ==
    /\ wpc = "idle" /\ werr = ""
    /\ grid = [ny |-> 0, nx |-> 0, lon |-> <<>>, lat |-> <<>>]
    /\ className = "" /\ box = NoBox /\ zero_crossing = FALSE
    /\ slice_i = slice_None /\ slice_j = slice_None
    /\ slice_i_pad = slice_None /\ slice_j_pad = slice_None
    /\ slice_i_unpad = slice_None /\ slice_j_unpad = slice_None
    /\ pad = None
ConcIdle == /\ tpc = <<>> /\ tzeta = <<>> /\ tres = <<>> /\ tclean = <<>>

(***************************************************************************)
(* set_initial_indices                                                     *)
(***************************************************************************)
AvisoNames == {"AvisoGrid"}

\* The zero crossing column bounds on a regular grid.
zc_i_1(g, lonmin) == FloorInterp((lonmin - 2) % 1440, g.lon)
zc_i_0_noplus(g, lonmax) == FloorInterp((lonmax + 2) % 1440, g.lon)
zc_i_0(g, lonmax) == FloorInterp((lonmax + 2) % 1440, g.lon) + 1

\* The core window <<slice_j, slice_i>> of a domain.  nearest_point reads the
\* longitude for i and the latitude for j only, so the other coordinate of
\* each query (a midpoint of the box) does not reach the result.
initial_indices(g, cls, zc, b) ==
    LET latmin_offset == b.latmin + FloorHalf(b.latmax - b.latmin)
        lonmin_offset == b.lonmin + FloorHalf(b.lonmax - b.lonmin)
        n_i_0 == nearest_point(g, b.lonmin, latmin_offset)[1]
        n_i_1 == nearest_point(g, b.lonmax, latmin_offset)[1]
        j_0 == nearest_point(g, lonmin_offset, b.latmin)[2]
        j_1 == nearest_point(g, lonmin_offset, b.latmax)[2]
        wrap == cls \in AvisoNames /\ zc
        i_0 == IF wrap THEN zc_i_0(g, b.lonmax) ELSE n_i_0
        i_1 == IF wrap THEN zc_i_1(g, b.lonmin) ELSE n_i_1
    IN  <<pyslice(Some(j_0), Some(j_1)), pyslice(Some(i_0), Some(i_1))>>

\* The grids of the model are regular: the k-d tree branch of an irregular
\* grid is not taken on them.
set_initial_indices ==
    /\ wpc = "new"
    /\ (className \in AvisoNames /\ zero_crossing) => is_regular(grid)
    /\ LET w == initial_indices(grid, className, zero_crossing, box)
       IN  slice_j' = w[1] /\ slice_i' = w[2]
    /\ wpc' = "indexed"
    /\ UNCHANGED <<werr, grid, className, box, zero_crossing, slice_i_pad,
                   slice_j_pad, slice_i_unpad, slice_j_unpad, pad>>
    /\ UNCHANGED <<bufvars, metvars, solvars, stagvars, concvars>>

\* A caller that sets the core window itself, leaving its ends open.
assign_open_window ==
    /\ wpc = "new"
    /\ ~zero_crossing
    /\ \E k \in {1, 3} :
          /\ slice_j' = pyslice(Some(k), None)
          /\ slice_i' = pyslice(Some(k + 1), None)
    /\ wpc' = "indexed"
    /\ UNCHANGED <<werr, grid, className, box, zero_crossing, slice_i_pad,
                   slice_j_pad, slice_i_unpad, slice_j_unpad, pad>>
    /\ UNCHANGED <<bufvars, metvars, solvars, stagvars, concvars>>

(***************************************************************************)
(* set_index_padding                                                       *)
(***************************************************************************)
get_str_unclamped(start, p) == start - p
get_str(start, p) == Max(0, start - p)

get_end(theend, shape, p) ==
    IF theend = None THEN None ELSE Some(Min(shape, theend[1] + p))

\* The slices set_index_padding(p) assigns, in the order it assigns them;
\* err is the exception that cuts it short: None - pad is a TypeError.
index_padding(sj, si, zc, g, p) ==
    LET q == IF zc THEN -p ELSE p
        jdone == [slice_j_unpad |-> pyslice(Some(p), Some(-p)),
                  slice_j_pad |-> pyslice(Some(get_str(sj.start[1], p)),
                                          get_end(sj.stop, g.ny, p))]
    IN  IF sj.start = None
        THEN [err |-> "TypeError", jset |-> FALSE, iset |-> FALSE,
              slice_j_unpad |-> slice_None, slice_j_pad |-> slice_None,
              slice_i_unpad |-> slice_None, slice_i_pad |-> slice_None]
        ELSE IF si.start = None
        THEN [err |-> "TypeError", jset |-> TRUE, iset |-> FALSE,
              slice_j_unpad |-> jdone.slice_j_unpad, slice_j_pad |-> jdone.slice_j_pad,
              slice_i_unpad |-> slice_None, slice_i_pad |-> slice_None]
        ELSE [err |-> "", jset |-> TRUE, iset |-> TRUE,
              slice_j_unpad |-> jdone.slice_j_unpad, slice_j_pad |-> jdone.slice_j_pad,
              slice_i_unpad |-> pyslice(Some(Abs(q)), Some(-Abs(q))),
              slice_i_pad |-> pyslice(Some(get_str(si.start[1], q)),
                                      get_end(si.stop, g.nx, q))]

set_index_padding(p) ==
    /\ wpc \in {"new", "indexed", "padded"}
    /\ pad' = Some(p)
    /\ LET r == index_padding(slice_j, slice_i, zero_crossing, grid, p)
       IN  /\ IF r.jset
              THEN slice_j_unpad' = r.slice_j_unpad /\ slice_j_pad' = r.slice_j_pad
              ELSE UNCHANGED <<slice_j_unpad, slice_j_pad>>
           /\ IF r.iset
              THEN slice_i_unpad' = r.slice_i_unpad /\ slice_i_pad' = r.slice_i_pad
              ELSE UNCHANGED <<slice_i_unpad, slice_i_pad>>
           /\ werr' = r.err
           /\ wpc' = IF r.err = "" THEN "padded" ELSE "error"
    /\ UNCHANGED <<grid, className, box, zero_crossing, slice_i, slice_j>>
    /\ UNCHANGED <<bufvars, metvars, solvars, stagvars, concvars>>

(***************************************************************************)
(* set_u_v_eke                                                             *)
(***************************************************************************)
\* The shape set_u_v_eke gives upad: <<TRUE, shape>>, or <<FALSE, exception>>
\* (None in the arithmetic is a TypeError, a negative axis a ValueError).
\* u_v_shape_nowrap takes stop - start for the columns with a zero crossing
\* too.
u_v_shape_nowrap(sjp, sip, zc, nx) ==
    IF sjp.stop = None \/ sjp.start = None \/ sip.stop = None \/ sip.start = None
    THEN [err |-> "TypeError", shape |-> <<>>]
    ELSE IF sjp.stop[1] - sjp.start[1] < 0 \/ sip.stop[1] - sip.start[1] < 0
    THEN [err |-> "ValueError", shape |-> <<>>]
    ELSE [err |-> "", shape |-> <<sjp.stop[1] - sjp.start[1], sip.stop[1] - sip.start[1]>>]

u_v_shape(sjp, sip, zc, nx) ==
    IF sjp.stop = None \/ sjp.start = None THEN [err |-> "TypeError", shape |-> <<>>]
    ELSE LET j_size == sjp.stop[1] - sjp.start[1]
         IN  IF zc
             THEN IF sip.start = None THEN [err |-> "TypeError", shape |-> <<>>]
                  ELSE IF j_size < 0 \/ sip.start[1] < 0
                       THEN [err |-> "ValueError", shape |-> <<>>]
                  ELSE IF sip.stop = None THEN [err |-> "TypeError", shape |-> <<>>]
                  ELSE IF nx - sip.stop[1] < 0 THEN [err |-> "ValueError", shape |-> <<>>]
                  ELSE [err |-> "", shape |-> <<j_size, (nx - sip.stop[1]) + sip.start[1]>>]
             ELSE IF sip.stop = None \/ sip.start = None
                  THEN [err |-> "TypeError", shape |-> <<>>]
                  ELSE IF j_size < 0 \/ sip.stop[1] - sip.start[1] < 0
                       THEN [err |-> "ValueError", shape |-> <<>>]
                  ELSE [err |-> "", shape |-> <<j_size, sip.stop[1] - sip.start[1]>>]

\* What np.empty may hold: the model draws one value per buffer.
Garbage == {F(0), F(7)}

set_u_v_eke ==
    /\ wpc \in {"new", "indexed", "padded"}
    /\ LET r == u_v_shape(slice_j_pad, slice_i_pad, zero_crossing, grid.nx)
       IN  IF r.err = ""
           THEN /\ \E gu \in Garbage, gv \in Garbage :
                      /\ upad' = full(r.shape, gu)
                      /\ vpad' = full(r.shape, gv)
                /\ wpc' = "alloc"
                /\ UNCHANGED werr
           ELSE /\ werr' = r.err
                /\ wpc' = "error"
                /\ UNCHANGED bufvars
    /\ UNCHANGED <<grid, className, box, zero_crossing, slice_i, slice_j,
                   slice_i_pad, slice_j_pad, slice_i_unpad, slice_j_unpad, pad>>
    /\ UNCHANGED <<metvars, solvars, stagvars, concvars>>

(***************************************************************************)
(* The window life cycle: a grid is loaded and a domain configured, then   *)
(* the core window, the padding and the buffers are set.                   *)
(***************************************************************************)
Grids == { MkGrid(10, 10, 0, 0, 4),
           MkGrid(100, 50, 40, -200, 4),
           MkGrid(180, 360, 0, -358, 4),
           MkGrid(180, 360, 2, -358, 4),
           MkGrid(180, 360, 3, -358, 4) }

\* Index pairs <<lo, hi>> of an axis of length n: at each end and inside.
Pairs(n) == { <<0, 2>>, <<1, 3>>, <<3, 6>>, <<n - 4, n - 2>>, <<n - 3, n - 1>>,
              <<n \div 2, (n \div 2) + 3>> }

\* Boxes whose corners lie at (jit = 0) or beside (jit = 3) grid points.
NormalBoxes(g) ==
    { [lonmin |-> g.lon[c[1] + 1] + jit, lonmax |-> g.lon[c[2] + 1] + jit,
       latmin |-> g.lat[r[1] + 1] + jit, latmax |-> g.lat[r[2] + 1] + jit] :
          c \in Pairs(g.nx), r \in Pairs(g.ny), jit \in {0, 3} }

\* Boxes across the zero meridian: 350..10, 355..5, -10..10, 359..0 degrees.
WrapBoxes(g) ==
    { [lonmin |-> l[1], lonmax |-> l[2],
       latmin |-> g.lat[r[1] + 1], latmax |-> g.lat[r[2] + 1]] :
          l \in { <<1400, 40>>, <<1420, 20>>, <<-40, 40>>, <<1436, 0>> },
          r \in { <<0, 2>>, <<3, 6>> } }

WinInit ==
    /\ wpc = "new" /\ werr = ""
    /\ grid \in Grids
    /\ \/ className = "AvisoGrid" /\ zero_crossing \in BOOLEAN
       \/ className = "RomsGrid" /\ zero_crossing = FALSE
    /\ box \in (IF zero_crossing THEN WrapBoxes(grid) ELSE NormalBoxes(grid))
    /\ slice_i = slice_None /\ slice_j = slice_None
    /\ slice_i_pad = slice_None /\ slice_j_pad = slice_None
    /\ slice_i_unpad = slice_None /\ slice_j_unpad = slice_None
    /\ pad = None

Init == WinInit /\ BufIdle /\ MetIdle /\ SolIdle /\ StagIdle /\ ConcIdle

Next ==
    \/ set_initial_indices
    \/ assign_open_window
    \/ \E p \in 0..MaxPad : set_index_padding(p)
    \/ set_u_v_eke

Spec == Init /\ [][Next]_vars

(***************************************************************************)
(* Claims on the window life cycle.                                        *)
(***************************************************************************)
Padded == wpc \in {"padded", "alloc"}
ClosedCore == slice_j.stop # None /\ slice_i.stop # None
PaddedShape == ViewShape(slice_j_pad, slice_i_pad, zero_crossing, grid.ny, grid.nx)
CoreShape == <<slice_j.stop[1] - slice_j.start[1], slice_i.stop[1] - slice_i.start[1]>>
InsideGrid ==
    /\ 0 <= slice_j.start[1] /\ slice_j.start[1] <= slice_j.stop[1]
    /\ slice_j.stop[1] <= grid.ny
    /\ 0 <= slice_i.start[1] /\ slice_i.start[1] <= slice_i.stop[1]
    /\ slice_i.stop[1] <= grid.nx

\* C1: for a non-wrapping core window inside a 10x10 or 100x50 grid and a pad
\* of 0, 1, 2 or 5, an array indexed by view_pad and then by view_unpad has
\* the shape of the core window.
C1_UnpadShapeIsCoreShape ==
    ( /\ Padded /\ ~zero_crossing /\ ClosedCore
      /\ pad[1] \in {0, 1, 2, 5}
      /\ <<grid.ny, grid.nx>> \in { <<10, 10>>, <<100, 50>> }
      /\ InsideGrid )
    => UnpadShape(PaddedShape, slice_j_unpad, slice_i_unpad) = CoreShape

\* The 1 degree global grids: 360 columns from a longitude in [0, 1).
Global1Deg == grid.nx = 360 /\ grid.lon[1] \in 0..3 /\ grid.lon[2] - grid.lon[1] = 4
Box350to10 == box.lonmin = 1400 /\ box.lonmax = 40
C2_Case ==
    /\ wpc = "indexed" /\ ClosedCore /\ className \in AvisoNames
    /\ Global1Deg /\ Box350to10
ViewColCount == Len(ViewCols(slice_i, zero_crossing, grid.nx))

\* C2 as stated: on a 1 degree regular global grid the window of the box
\* lonmin = 350, lonmax = 10 has 20 columns, give or take 1, and
\* zero_crossing is True.
C2_TwentyColumns ==
    C2_Case => (ViewColCount \in 19..21 /\ zero_crossing)

\* C2, amended: on a 1 degree regular global grid whose longitudes start in
\* [0, 1), with zero_crossing set for the domain, the window of the box
\* lonmin = 350, lonmax = 10 has 22 columns (the 20 of the box and one more on
\* each side), and zero_crossing is still True.
C2_TwentyTwoColumns ==
    (C2_Case /\ zero_crossing) => (ViewColCount = 22 /\ zero_crossing)

C2_Witness == C2_Case /\ zero_crossing /\ ViewColCount = 22

\* C3: with zero_crossing set, the column index of view_pad sliced by the
\* column unpad slice is the column index of view, for every core column
\* range and pad.
C3_UnpadRecoversCoreColumns ==
    (Padded /\ zero_crossing)
    => SliceSeq(ViewCols(slice_i_pad, TRUE, grid.nx), slice_i_unpad)
         = ViewCols(slice_i, TRUE, grid.nx)

\* C10: set_index_padding(pad) sets the padded rows to
\* [max(0, start - pad), min(grid_rows, end + pad)), an open end staying open,
\* and the row unpad slice to [pad, -pad) whatever was clamped; a core window
\* closer than pad to a grid edge gets fewer than pad rows of context on that
\* side, and no error is raised.
C10_RowPadding ==
    Padded =>
      /\ werr = ""
      /\ slice_j_pad.start = Some(Max(0, slice_j.start[1] - pad[1]))
      /\ slice_j_pad.stop = IF slice_j.stop = None THEN None
                            ELSE Some(Min(grid.ny, slice_j.stop[1] + pad[1]))
      /\ slice_j_unpad = pyslice(Some(pad[1]), Some(-pad[1]))
      /\ (slice_j.start[1] < pad[1]
            => slice_j.start[1] - slice_j_pad.start[1] < pad[1])
      /\ (slice_j.stop # None /\ slice_j.stop[1] + pad[1] > grid.ny
            => slice_j_pad.stop[1] - slice_j.stop[1] < pad[1])

\* A core window one row from the lower edge, open at its end, padded by 2.
C10_Witness ==
    /\ wpc = "padded" /\ pad = Some(2)
    /\ slice_j = pyslice(Some(1), None)
    /\ slice_j_pad = pyslice(Some(0), None)
    /\ slice_j_unpad = pyslice(Some(2), Some(-2))

\* The column indices of view_pad all name a column of the grid.
ViewPadInGrid ==
    \A k \in 1..Len(ViewCols(slice_i_pad, zero_crossing, grid.nx)) :
        LET c == ViewCols(slice_i_pad, zero_crossing, grid.nx)[k]
        IN  0 <= c /\ c < grid.nx

\* C11: once set_u_v_eke has allocated them, upad and vpad have the shape of
\* a grid array indexed by view_pad: without zero crossing stop - start rows
\* and stop - start columns of the padded slices, with zero crossing
\* slice_i_pad.start + grid width - slice_i_pad.stop columns, the length of
\* the wraparound index; on a global grid that index stays inside the grid.
C11_BuffersHaveViewPadShape ==
    wpc = "alloc" =>
        /\ upad.shape = PaddedShape
        /\ vpad.shape = PaddedShape
        /\ upad.shape[1] = slice_j_pad.stop[1] - slice_j_pad.start[1]
        /\ upad.shape[2] = IF zero_crossing
                           THEN slice_i_pad.start[1] + grid.nx - slice_i_pad.stop[1]
                           ELSE slice_i_pad.stop[1] - slice_i_pad.start[1]
        /\ (~zero_crossing \/ Global1Deg) => ViewPadInGrid

C11_Witness ==
    /\ wpc = "alloc" /\ zero_crossing /\ Global1Deg
    /\ pad # None /\ pad[1] >= 1
    /\ upad.shape = PaddedShape
    /\ upad.shape[2] = slice_i_pad.start[1] + grid.nx - slice_i_pad.stop[1]
    /\ upad.shape[2] < slice_i_pad.stop[1] - slice_i_pad.start[1]

(***************************************************************************)
(* The staggering functions, called on arrays of any rank: one call on a   *)
(* fresh array, then at most one call on what the first returned.          *)
(***************************************************************************)
MaxStagDim == 3

StagShapes ==
    {<<>>} \cup { <<a>> : a \in 0..MaxStagDim }
           \cup { <<a, b>> : a \in 0..MaxStagDim, b \in 0..MaxStagDim }
           \cup { <<a, b, c>> : a \in 1..MaxStagDim, b \in 0..MaxStagDim,
                                c \in 1..MaxStagDim }

\* Constant fields, and a field that differs from cell to cell.
StagInputs ==
    { full(shp, c) : shp \in StagShapes, c \in {F(0), F(1), F(5)} }
    \cup { MkArray(shp, LAMBDA mi : F(Ravel(mi, shp))) : shp \in StagShapes }

ArgChoices ==
    IF fn = "" THEN StagInputs
    ELSE IF ret.ok /\ chain.fn = "" THEN {ret.val} ELSE {}

Called(f, x, r) ==
    /\ fn' = f /\ arg' = x /\ ret' = r
    /\ chain' = IF fn = "" THEN NoCall ELSE [fn |-> fn, arg |-> arg]
    /\ UNCHANGED <<winvars, bufvars, metvars, solvars, concvars>>

call_rho2u_2d == \E x \in ArgChoices : Called("rho2u_2d", x, rho2u_2d(x))
call_rho2v_2d == \E x \in ArgChoices : Called("rho2v_2d", x, rho2v_2d(x))
call_u2rho_2d == \E x \in ArgChoices : Called("u2rho_2d", x, u2rho_2d(x))
call_v2rho_2d == \E x \in ArgChoices : Called("v2rho_2d", x, v2rho_2d(x))

InitStagger == WinIdle /\ BufIdle /\ MetIdle /\ SolIdle /\ StagIdle /\ ConcIdle

NextStagger ==
    \/ call_rho2u_2d
    \/ call_rho2v_2d
    \/ call_u2rho_2d
    \/ call_v2rho_2d

SpecStagger == InitStagger /\ [][NextStagger]_vars

IsConstant(a) == \A k1, k2 \in 1..Len(a.data) : a.data[k1] = a.data[k2]

\* C5: rho2u_2d followed by u2rho_2d on a 2-D field whose cells all hold one
\* constant returns a field of the original shape whose cells hold that
\* constant, for every shape of the field.
C5_RoundTripConstant ==
    ( /\ fn = "u2rho_2d" /\ chain.fn = "rho2u_2d"
      /\ ndim(chain.arg) = 2 /\ size(chain.arg) > 0 /\ IsConstant(chain.arg) )
    => (ret.ok /\ ret.val.shape = chain.arg.shape /\ ret.val.data = chain.arg.data)

StagFns == {"rho2u_2d", "rho2v_2d", "u2rho_2d", "v2rho_2d"}

\* C8: each of rho2u_2d, rho2v_2d, u2rho_2d and v2rho_2d rejects an input
\* whose rank is not 2: the call raises (the assert of rho2u_2d and rho2v_2d,
\* the unpacking of the shape in u2rho_2d and v2rho_2d) and returns nothing.
C8_RejectsNon2D ==
    (fn \in StagFns /\ ndim(arg) # 2)
    => (~ret.ok /\ ret.val = NoArray /\ ret.err \in {"AssertionError", "ValueError"})

C8_Witness ==
    /\ fn = "rho2u_2d" /\ arg.shape = <<2, 3, 2>>
    /\ ~ret.ok /\ ret.err = "AssertionError"

(***************************************************************************)
(* set_geostrophic_velocity                                                *)
(***************************************************************************)
\* np.ma.array(data, mask=m): a mask of another shape is resized when it has
\* one element, reshaped when it has as many as the data, else refused.
ma_array(x, y) ==
    Strict(x, LAMBDA data :
    Strict(y, LAMBDA m :
        IF m.shape = data.shape \/ Len(m.data) = Len(data.data)
        THEN Ok([data EXCEPT !.mask = m.data])
        ELSE IF Len(m.data) = 1
        THEN Ok([data EXCEPT !.mask = Tuple([k \in 1..Len(data.data) |-> m.data[1]])])
        ELSE Raise("MaskError")))

\* zeta.data as the solver reads it (the data of the masked array, its mask
\* left behind) / as a solver that broadcast zeta to the shape of the
\* metrics first would.
zeta_data_broadcast(z, shape) ==
    IF Assignable(z.shape, shape) THEN AssignAll(zeros(shape), z)
    ELSE [z EXCEPT !.mask = <<>>]
zeta_data(z, shape) == [z EXCEPT !.mask = <<>>]

\* The masked field one half of the solver hands to v2rho_2d or u2rho_2d:
\* (zeta1 - zeta2) * 0.5 * (q1 + q2) under the mask msk; with the difference
\* replaced by a sum in geo_field_sum.
geo_field_sum(zeta1, zeta2, q1, q2, msk) ==
    Strict(MapArray(BinOp(zeta1, zeta2, FAdd), FHalf), LAMBDA half :
    Strict(BinOp(q1, q2, FAdd), LAMBDA qs :
        IF ~Broadcastable(half.shape, qs.shape) THEN Raise("ValueError")
        ELSE ma_array(BinOp(half, qs, FMul), msk)))

geo_field(zeta1, zeta2, q1, q2, msk) ==
    Strict(MapArray(BinOp(zeta1, zeta2, FSub), FHalf), LAMBDA half :
    Strict(BinOp(q1, q2, FAdd), LAMBDA qs :
        IF ~Broadcastable(half.shape, qs.shape) THEN Raise("ValueError")
        ELSE ma_array(BinOp(half, qs, FMul), msk)))

\* buf[:] = val for an assignable val: every cell of the buffer is written.
\* buffer_accumulate adds val to what the buffer holds instead.
buffer_accumulate(buf, val) ==
    [buf EXCEPT !.data = BinOp(buf, AssignAll(buf, val), FAdd).data]
buffer_assign(buf, val) == AssignAll(buf, val)

\* A statement of the solver on a buffer: the exception it raises ("" when
\* none), whether it wrote the buffer, and the buffer it leaves.
Stmt(e, w, b) == [err |-> e, done |-> w, buf |-> b]

\* self.upad[:] = self.v2rho_2d(np.ma.array((zeta1 - zeta2) * 0.5 * (pn1 + pn2), mask=self.vmask))
stmt_upad_assign(z, up, M) ==
    IF ndim(z) < 1 THEN Stmt("IndexError", FALSE, up)
    ELSE Strict(geo_field(TakeSlice(z, 1, From1), TakeSlice(z, 1, ToLast),
                          TakeSlice(M.p_n, 1, From1), TakeSlice(M.p_n, 1, ToLast),
                          M.vmask), LAMBDA fld :
         Strict(IF fld.ok THEN v2rho_2d(fld.val) ELSE fld, LAMBDA rho :
             IF ~rho.ok THEN Stmt(rho.err, FALSE, up)
             ELSE IF ~Assignable(rho.val.shape, up.shape) THEN Stmt("ValueError", FALSE, up)
             ELSE Stmt("", TRUE, buffer_assign(up, rho.val))))

\* self.upad *= -self.gof
stmt_upad_scale(up, M) ==
    IF ~Assignable(M.gof.shape, up.shape) THEN Stmt("ValueError", FALSE, up)
    ELSE Stmt("", TRUE, [up EXCEPT !.data = BinOp(up, MapArray(M.gof, FNeg), FMul).data])

\* self.vpad[:] = self.u2rho_2d(np.ma.array((zeta1 - zeta2) * 0.5 * (pm1 + pm2), mask=self.umask))
stmt_vpad_assign(z, vp, M) ==
    IF ndim(z) < 2 THEN Stmt("IndexError", FALSE, vp)
    ELSE Strict(geo_field(TakeSlice(z, 2, From1), TakeSlice(z, 2, ToLast),
                          TakeSlice(M.p_m, 2, From1), TakeSlice(M.p_m, 2, ToLast),
                          M.umask), LAMBDA fld :
         Strict(IF fld.ok THEN u2rho_2d(fld.val) ELSE fld, LAMBDA rho :
             IF ~rho.ok THEN Stmt(rho.err, FALSE, vp)
             ELSE IF ~Assignable(rho.val.shape, vp.shape) THEN Stmt("ValueError", FALSE, vp)
             ELSE Stmt("", TRUE, buffer_assign(vp, rho.val))))

\* self.vpad *= self.gof
stmt_vpad_scale(vp, M) ==
    IF ~Assignable(M.gof.shape, vp.shape) THEN Stmt("ValueError", FALSE, vp)
    ELSE Stmt("", TRUE, [vp EXCEPT !.data = BinOp(vp, M.gof, FMul).data])

\* set_geostrophic_velocity(zeta) on the buffers up, vp with the metrics M:
\* the exception it ends with ("" when it returns) and the buffers it
\* leaves, written as far as the statements before the exception went.
solve(z, up, vp, M) ==
    Strict(zeta_data(z, M.p_n.shape), LAMBDA zd :
    Strict(stmt_upad_assign(zd, up, M), LAMBDA u1 :
        IF u1.err # "" THEN [err |-> u1.err, upad |-> up, vpad |-> vp]
        ELSE
    Strict(stmt_upad_scale(u1.buf, M), LAMBDA u2 :
        IF u2.err # "" THEN [err |-> u2.err, upad |-> u1.buf, vpad |-> vp]
        ELSE
    Strict(stmt_vpad_assign(zd, vp, M), LAMBDA v1 :
        IF v1.err # "" THEN [err |-> v1.err, upad |-> u2.buf, vpad |-> vp]
        ELSE
    Strict(stmt_vpad_scale(v1.buf, M), LAMBDA v2 :
        IF v2.err # "" THEN [err |-> v2.err, upad |-> u2.buf, vpad |-> v1.buf]
        ELSE [err |-> "", upad |-> u2.buf, vpad |-> v2.buf])))))

Metrics == [p_m |-> p_m, p_n |-> p_n, gof |-> gof, umask |-> umask, vmask |-> vmask]

\* The upad and vpad a solve of z leaves when it runs alone on buffers of
\* zeros.
AloneSolve(z) == solve(z, zeros(upad.shape), zeros(vpad.shape), Metrics)

(***************************************************************************)
(* The velocity solves of one grid object: the window is indexed and       *)
(* padded, then the metrics and the masks are cached, the buffers are      *)
(* allocated, and set_geostrophic_velocity and get_eke are called in turn. *)
(***************************************************************************)
MaxSolveDim == 4
MaxSolvePad == 2
MaxEke == 2

SolveGrid == MkGrid(MaxSolveDim, MaxSolveDim + 1, 0, 0, 4)

SolveBoxes(g) ==
    { [lonmin |-> g.lon[c[1] + 1], lonmax |-> g.lon[c[2] + 1],
       latmin |-> g.lat[r[1] + 1], latmax |-> g.lat[r[2] + 1]] :
          c \in { <<0, 1>>, <<1, 3>> }, r \in { <<0, 1>>, <<1, 2>> } }

\* The land mask over the padded window: nothing masked, or every other
\* cell.
MaskChoices(shape) ==
    { [MkArray(shape, LAMBDA mi : FALSE) EXCEPT !.mask = <<>>],
      [MkArray(shape, LAMBDA mi : (mi[1] + mi[2]) % 2 = 0) EXCEPT !.mask = <<>>] }

\* The window after set_initial_indices and set_index_padding(p), the life
\* cycle at pc.
PaddedWindow(p, pc) ==
    /\ grid = SolveGrid
    /\ className = "AvisoGrid" /\ zero_crossing = FALSE
    /\ box \in SolveBoxes(grid)
    /\ LET ii == initial_indices(grid, className, zero_crossing, box)
           ip == index_padding(ii[1], ii[2], zero_crossing, grid, p)
       IN  /\ slice_j = ii[1] /\ slice_i = ii[2]
           /\ slice_j_pad = ip.slice_j_pad /\ slice_i_pad = ip.slice_i_pad
           /\ slice_j_unpad = ip.slice_j_unpad /\ slice_i_unpad = ip.slice_i_unpad
    /\ pad = Some(p)
    /\ wpc = pc /\ werr = ""

PadShapeNow == ViewShape(slice_j_pad, slice_i_pad, zero_crossing, grid.ny, grid.nx)

InitSolve ==
    /\ \E p \in 1..MaxSolvePad : PaddedWindow(p, "padded")
    /\ BufIdle
    /\ p_m = NoArray /\ p_n = NoArray /\ gof = NoArray
    /\ umask = NoArray /\ vmask = NoArray
    /\ mask \in MaskChoices(PadShapeNow)
    /\ SolIdle /\ StagIdle /\ ConcIdle

\* GRAVITY / f along the rows of the padded window: finite and of both
\* signs, or infinite on the row of the equator, where f is zero.
GofChoices(shape) ==
    { MkArray(shape, LAMBDA mi : F(2 * mi[1] - 3)),
      MkArray(shape, LAMBDA mi : IF mi[1] = 1 THEN Inf(1) ELSE F(mi[1] - 1)) }

\* The reciprocal of a grid spacing along axis d.  The spacing is computed
\* for the inner cells and the border cells repeat their neighbours; a
\* window of fewer than three cells along d has no inner cell, its spacing
\* stays zero and the reciprocal is infinite.  The spacing is finite
\* elsewhere (PRegular), or zero where two grid points coincide
\* (PDegenerate).
Inward(k, n) == Max(1, Min(n - 2, k))
PRegular(shape, d) ==
    MkArray(shape, LAMBDA mi : IF shape[d] < 3 THEN Inf(1)
                               ELSE F(1 + Inward(mi[d], shape[d]) + 2 * mi[3 - d]))
PDegenerate(shape, d) ==
    MkArray(shape, LAMBDA mi : IF shape[d] < 3 \/ (Inward(mi[d], shape[d]) = 1 /\ mi[3 - d] = 0)
                               THEN Inf(1) ELSE F(1 + mi[3 - d]))

\* get_aviso_f_pm_pn: gof, p_m and p_n over the padded window.  The border
\* assignments p_m[:, 0] = p_m[:, 1] and p_n[0] = p_n[1] need two columns
\* and two rows.
get_aviso_f_pm_pn ==
    /\ wpc \in {"padded", "alloc"}
    /\ spc = "idle"
    /\ p_n = NoArray
    /\ IF PadShapeNow[1] < 2 \/ PadShapeNow[2] < 2
       THEN /\ serr' = "IndexError" /\ spc' = "raised"
            /\ UNCHANGED metvars
       ELSE /\ gof' \in GofChoices(PadShapeNow)
            /\ \/ p_m' = PRegular(PadShapeNow, 2) /\ p_n' = PRegular(PadShapeNow, 1)
               \/ p_m' = PDegenerate(PadShapeNow, 2) /\ p_n' = PDegenerate(PadShapeNow, 1)
            /\ UNCHANGED <<mask, umask, vmask, spc, serr>>
    /\ UNCHANGED <<zeta, u_val, v_val, eke, heap, kept>>
    /\ UNCHANGED <<winvars, bufvars, stagvars, concvars>>

And(a, b) == a /\ b

\* mask[:, :-1] * mask[:, 1:] and mask[:-1] * mask[1:]
umask_of(m) == BinOp(TakeSlice(m, 2, ToLast), TakeSlice(m, 2, From1), And)
vmask_of(m) == BinOp(TakeSlice(m, 1, ToLast), TakeSlice(m, 1, From1), And)

\* uvmask: the masks at the U and V points.
uvmask ==
    /\ wpc \in {"padded", "alloc"}
    /\ spc = "idle"
    /\ umask = NoArray
    /\ umask' = umask_of(mask)
    /\ vmask' = vmask_of(mask)
    /\ UNCHANGED <<p_m, p_n, gof, mask, solvars>>
    /\ UNCHANGED <<winvars, bufvars, stagvars, concvars>>

\* The zeta fields of the shape of the padded window: flat, a ramp, and a
\* single bump.
ZetaFields(shape) ==
    { full(shape, F(3)),
      MkArray(shape, LAMBDA mi : F(mi[1] * mi[1] + 2 * mi[2])),
      MkArray(shape, LAMBDA mi : IF mi[1] = 1 /\ mi[2] = 1 THEN F(4) ELSE F(0)) }

\* Fields of every other shape near it, and of other ranks.
ZetaMisshapen(shape) ==
    ({ full(<<a, b>>, F(1)) : a \in 0..(shape[1] + 1), b \in 0..(shape[2] + 1) }
        \ { full(shape, F(1)) })
    \cup { full(<<>>, F(1)), full(<<shape[2]>>, F(1)), full(<<shape[1]>>, F(1)),
           full(<<1>> \o shape, F(1)), full(shape \o <<1>>, F(1)) }

\* set_geostrophic_velocity(z).  The callers of the model cache the metrics
\* and the masks and allocate the buffers first; a misshapen field is tried
\* as the first solve.
set_geostrophic_velocity(z) ==
    /\ wpc = "alloc" /\ p_n # NoArray /\ umask # NoArray
    /\ spc \in {"idle", "solved"}
    /\ \E r \in {solve(z, upad, vpad, Metrics)} :
           /\ upad' = r.upad
           /\ vpad' = r.vpad
           /\ serr' = r.err
           /\ spc' = IF r.err = "" THEN "solved" ELSE "raised"
    /\ zeta' = z
    /\ UNCHANGED <<u_val, v_val, eke, heap, kept>>
    /\ UNCHANGED <<winvars, metvars, stagvars, concvars>>

\* The cells a view shows of the buffer it is a view of.
Deref(v, up, vp) ==
    LET buf == IF v.base = "upad" THEN up ELSE vp
    IN  TakeSlice(TakeSlice(buf, 1, v.rows), 2, v.cols)

view_unpad(b) == [set |-> TRUE, base |-> b, rows |-> slice_j_unpad, cols |-> slice_i_unpad]

FSquare(a) == FMul(a, a)

\* (u_val ** 2 + v_val ** 2) * 0.5, a new array.
eke_value(u, v) == MapArray(BinOp(MapArray(u, FSquare), MapArray(v, FSquare), FAdd), FHalf)

\* Where get_eke leaves its eke: in a new array (eke_new), or in the array
\* of the previous call (eke_in_place).
eke_in_place(h, e, val) ==
    IF e = 0 THEN Append(h, val) ELSE [h EXCEPT ![e] = val]
eke_new(h, e, val) == Append(h, val)

\* get_eke: u_val and v_val become views of upad and vpad, eke a new array.
get_eke ==
    /\ spc = "solved"
    /\ Len(heap) < MaxEke
    /\ u_val' = view_unpad("upad")
    /\ v_val' = view_unpad("vpad")
    /\ \E h \in {eke_new(heap, eke, eke_value(Deref(view_unpad("upad"), upad, vpad),
                                               Deref(view_unpad("vpad"), upad, vpad)))} :
           /\ heap' = h
           /\ eke' = IF Len(h) > Len(heap) THEN Len(h) ELSE eke
    /\ UNCHANGED <<zeta, kept, spc, serr>>
    /\ UNCHANGED <<winvars, bufvars, metvars, stagvars, concvars>>

\* The caller keeps the u_val, v_val and eke of the solve just made, and
\* notes the values it reads in them.
keep_result ==
    /\ spc = "solved"
    /\ u_val.set
    /\ ~kept.have
    /\ kept' = [have |-> TRUE, u |-> u_val, v |-> v_val, eke |-> eke,
                u_seen |-> Deref(u_val, upad, vpad),
                v_seen |-> Deref(v_val, upad, vpad),
                eke_seen |-> heap[eke]]
    /\ UNCHANGED <<zeta, u_val, v_val, eke, heap, spc, serr>>
    /\ UNCHANGED <<winvars, bufvars, metvars, stagvars, concvars>>

NextSolve ==
    \/ get_aviso_f_pm_pn
    \/ uvmask
    \/ set_u_v_eke
    \/ \E z \in ZetaFields(PadShapeNow) : set_geostrophic_velocity(z)
    \/ \E z \in ZetaMisshapen(PadShapeNow) : spc = "idle" /\ set_geostrophic_velocity(z)
    \/ get_eke
    \/ keep_result

SpecSolve == InitSolve /\ [][NextSolve]_vars

(***************************************************************************)
(* Claims on the velocity solves                                           *)
(***************************************************************************)
Solved == spc = "solved"
FlatZeta == zeta.shape = p_n.shape /\ size(zeta) > 0 /\ IsConstant(zeta)
AllZero(a) == \A k \in 1..Len(a.data) : IsZero(a.data[k])
AllFinite(a) == \A k \in 1..Len(a.data) : IsFinite(a.data[k])
FiniteMetrics == AllFinite(gof) /\ AllFinite(p_m) /\ AllFinite(p_n)

C6_EarlierResultsKeepValues ==
    kept.have =>
        /\ Deref(kept.u, upad, vpad) = kept.u_seen
        /\ Deref(kept.v, upad, vpad) = kept.v_seen
        /\ heap[kept.eke] = kept.eke_seen

\* C6 (amended): the eke a caller kept from an earlier solve holds the
\* values the caller read in it; the u and v it kept are views of upad and
\* vpad, the buffers every solve writes, and show the latest solve; and
\* what a solve leaves in upad and vpad depends only on its zeta and on the
\* cached metrics and masks, not on the solves before it.
C6_OnlyEkeKeepsValues ==
    /\ kept.have => heap[kept.eke] = kept.eke_seen
    /\ kept.have => (kept.u = view_unpad("upad") /\ kept.v = view_unpad("vpad"))
    /\ Solved => \A r \in {AloneSolve(zeta)} :
                    /\ r.err = "" /\ upad = r.upad /\ vpad = r.vpad
                    /\ kept.have =>
                          /\ Deref(kept.u, upad, vpad) = Deref(kept.u, r.upad, r.vpad)
                          /\ Deref(kept.v, upad, vpad) = Deref(kept.v, r.upad, r.vpad)

C6_Witness ==
    /\ kept.have /\ Solved
    /\ Deref(kept.u, upad, vpad) # kept.u_seen
    /\ eke # kept.eke
    /\ heap[eke] # kept.eke_seen
    /\ heap[kept.eke] = kept.eke_seen

\* C9: set_geostrophic_velocity raises on every zeta whose shape differs
\* from the shape of the metrics and of the buffers; none is turned into a
\* result.
C9_MisshapenZetaRaises ==
    ( /\ spc \in {"solved", "raised"} /\ p_n # NoArray
      /\ zeta.shape # p_n.shape \/ zeta.shape # upad.shape )
    => ( /\ spc = "raised"
         /\ serr \in {"ValueError", "MaskError", "IndexError"} )

\* A zeta with an axis of length 1 is refused, after upad was written.
C9_Witness ==
    /\ spc = "raised" /\ p_n # NoArray
    /\ Len(zeta.shape) = 2 /\ zeta.shape[1] = p_n.shape[1]
    /\ zeta.shape[2] = 1 /\ p_n.shape[2] > 2
    /\ \E k \in 1..Len(upad.data) : upad.data[k] \notin Garbage

(***************************************************************************)
(* Two invocations of set_geostrophic_velocity on one grid object, for two *)
(* time steps, their statements interleaved.  The metrics and the masks    *)
(* are cached and the buffers allocated before either starts.              *)
(***************************************************************************)
Invocations == {"a", "b"}
NoResult == [upad |-> NoArray, vpad |-> NoArray]

InitConc ==
    /\ PaddedWindow(1, "alloc")
    /\ mask \in MaskChoices(PadShapeNow)
    /\ gof \in GofChoices(PadShapeNow)
    /\ p_m = PRegular(PadShapeNow, 2) /\ p_n = PRegular(PadShapeNow, 1)
    /\ umask = umask_of(mask) /\ vmask = vmask_of(mask)
    /\ upad = full(PadShapeNow, F(7)) /\ vpad = full(PadShapeNow, F(7))
    /\ SolIdle /\ StagIdle
    /\ tpc = [t \in Invocations |-> "called"]
    /\ tzeta \in [Invocations -> ZetaFields(PadShapeNow)]
    /\ tres = [t \in Invocations |-> NoResult]
    /\ tclean = [t \in Invocations |-> TRUE]

\* A statement of invocation t ran: an invocation that has started and not
\* returned is no longer alone, and neither is t when there is one.
Started(t) == tpc[t] \in {"u_assigned", "u_scaled", "v_assigned", "v_scaled"}
Interleave(t) ==
    tclean' = [s \in Invocations |->
                  IF s # t /\ Started(s) THEN FALSE
                  ELSE IF s = t /\ \E o \in Invocations \ {t} : Started(o) THEN FALSE
                  ELSE tclean[s]]

\* The statement st of invocation t, on the buffer it writes.
conc_stmt(t, from, to, st) ==
    /\ tpc[t] = from
    /\ tpc' = [tpc EXCEPT ![t] = IF st.err = "" THEN to ELSE "raised"]
    /\ Interleave(t)
    /\ UNCHANGED <<tzeta, tres>>
    /\ UNCHANGED <<winvars, metvars, solvars, stagvars>>

conc_upad_assign(t) ==
    \E st \in {stmt_upad_assign(zeta_data(tzeta[t], p_n.shape), upad, Metrics)} :
        /\ conc_stmt(t, "called", "u_assigned", st)
        /\ upad' = st.buf /\ UNCHANGED vpad

conc_upad_scale(t) ==
    \E st \in {stmt_upad_scale(upad, Metrics)} :
        /\ conc_stmt(t, "u_assigned", "u_scaled", st)
        /\ upad' = st.buf /\ UNCHANGED vpad

conc_vpad_assign(t) ==
    \E st \in {stmt_vpad_assign(zeta_data(tzeta[t], p_n.shape), vpad, Metrics)} :
        /\ conc_stmt(t, "u_scaled", "v_assigned", st)
        /\ vpad' = st.buf /\ UNCHANGED upad

conc_vpad_scale(t) ==
    \E st \in {stmt_vpad_scale(vpad, Metrics)} :
        /\ conc_stmt(t, "v_assigned", "v_scaled", st)
        /\ vpad' = st.buf /\ UNCHANGED upad

\* The invocation returns; its caller reads upad and vpad.
conc_return(t) ==
    /\ tpc[t] = "v_scaled"
    /\ tpc' = [tpc EXCEPT ![t] = "done"]
    /\ tres' = [tres EXCEPT ![t] = [upad |-> upad, vpad |-> vpad]]
    /\ Interleave(t)
    /\ UNCHANGED tzeta
    /\ UNCHANGED <<winvars, bufvars, metvars, solvars, stagvars>>

NextConc ==
    \E t \in Invocations :
        \/ conc_upad_assign(t)
        \/ conc_upad_scale(t)
        \/ conc_vpad_assign(t)
        \/ conc_vpad_scale(t)
        \/ conc_return(t)

SpecConc == InitConc /\ [][NextConc]_vars

AloneResult(t) ==
    LET r == AloneSolve(tzeta[t]) IN [upad |-> r.upad, vpad |-> r.vpad]

\* C7 (as stated): under every interleaving of the statements of the two
\* invocations, the upad and vpad an invocation returns are those it leaves
\* when it runs alone.
C7_InterleavedEqualsAlone ==
    \A t \in Invocations : tpc[t] = "done" => tres[t] = AloneResult(t)

\* C7 (amended): the upad and vpad an invocation returns are those it leaves
\* when it runs alone, when no statement of the other invocation ran between
\* its first statement and its return.
C7_UninterleavedEqualsAlone ==
    \A t \in Invocations : (tpc[t] = "done" /\ tclean[t]) => tres[t] = AloneResult(t)

C7_Witness ==
    /\ \A t \in Invocations : tpc[t] = "done" /\ tclean[t]
    /\ tres["a"] # tres["b"]
    /\ tres["b"] = AloneResult("b")
====
